---- MODULE Spec2Model ----
(***************************************************************************)
(* A model of the smali patcher: the directive parser, the locator, the    *)
(* hunk appliers and the file directives of src/patch_helper.py, and the   *)
(* PATCH action of the earlier applier, src/smali_patch.py.                *)
(*                                                                         *)
(* A text line is a sequence of tokens.  A token is either one whitespace  *)
(* character (" " or "\t") or a word, a maximal run of non-whitespace      *)
(* characters cut where the program looks inside it: the comment markers   *)
(* "#" and "//" are tokens of their own.  Python's strip, startswith,      *)
(* re.sub(r'\s+', ' ', .) and the regular expressions of the program are   *)
(* computed on these tokens.  Indices are the program's 0-based indices,   *)
(* with -1 as its "not found" value; a buffer is a sequence of lines.      *)
(* The filesystem is assumed not to raise OSError/IOError.                 *)
(***************************************************************************)
EXTENDS Integers, Sequences, FiniteSets, TLC

VARIABLES
    \* hunk appliers and locator, applied to one in-memory buffer
    lines,          \* the target buffer handed to the function
    action,         \* the PatchAction handed to the function
    result,         \* what the function returned (Optional[List[str]])
    fingerprint,    \* the fingerprint handed to find_fingerprint
    match_idx,      \* what find_fingerprint returned
    drift,          \* the last line inserted into the target by its owner
    hpc,            \* position of the hunk run
    op_idx,         \* _apply_patch: index of the operation the replay is at
    target_idx,     \* _apply_patch: index of the target line the replay is at
    modified_lines, \* _apply_patch: the output buffer the replay has built
    \* directive parser
    input,          \* the patch-description lines
    i,              \* index of the line the parser looks at
    patches,        \* the patches emitted so far
    credits,        \* the credits collected so far
    cur,            \* the FILE patch whose block is open
    pstate,         \* "top", "file", "done" or "raised"
    \* patch application against the filesystem
    disk,           \* path -> content of the file, real run
    dryDisk,        \* path -> content of the file, dry run
    patch,          \* the Patch being applied
    log,            \* one entry per real application of the patch
    dryLog          \* one entry per dry application of the patch

hunkVars == <<lines, action, result, fingerprint, match_idx, drift, hpc,
              op_idx, target_idx, modified_lines>>
replayVars == <<op_idx, target_idx, modified_lines>>
parseVars == <<input, i, patches, credits, cur, pstate>>
applyVars == <<disk, dryDisk, patch, log, dryLog>>
vars == <<lines, action, result, fingerprint, match_idx, drift, hpc,
          op_idx, target_idx, modified_lines,
          input, i, patches, credits, cur, pstate,
          disk, dryDisk, patch, log, dryLog>>

----------------------------------------------------------------------------
(* Bounds of the model *)

MaxTarget == 3
MaxFingerprint == 2
MaxPatchTarget == 5
MaxMethodTarget == 5
MaxFieldTarget == 4
MaxReplayTarget == 4
MaxOps == 3
MaxSmaliTarget == 5
MaxInput == 4
MaxFileLines == 2
MaxContent == 3
MaxActions == 2
MaxRuns == 2
MaxDirectives == 3

SeqUpTo(S, n) == UNION {[1..k -> S] : k \in 0..n}

----------------------------------------------------------------------------
(* Python primitives on lines and buffers *)

Min(a, b) == IF a < b THEN a ELSE b
Max(a, b) == IF a > b THEN a ELSE b

IsSpace(t) == t \in {" ", "\t"}

RECURSIVE lstrip(_)
lstrip(s) == IF s # <<>> /\ IsSpace(Head(s)) THEN lstrip(Tail(s)) ELSE s

RECURSIVE rstrip(_)
rstrip(s) ==
    IF s # <<>> /\ IsSpace(s[Len(s)]) THEN rstrip(SubSeq(s, 1, Len(s) - 1)) ELSE s

\* str.strip()
strip(s) == rstrip(lstrip(s))

\* str.startswith(prefix)
startswith(s, prefix) ==
    Len(prefix) <= Len(s) /\ SubSeq(s, 1, Len(prefix)) = prefix

\* re.sub(r'\s+', ' ', s)
RECURSIVE collapse(_)
collapse(s) ==
    IF s = <<>> THEN <<>>
    ELSE IF IsSpace(Head(s)) THEN <<" ">> \o collapse(lstrip(Tail(s)))
    ELSE <<Head(s)>> \o collapse(Tail(s))

\* s[a:] and s[:b] of Python, negative indices counted from the end
PyIndex(s, a) == IF a < 0 THEN Max(Len(s) + a, 0) ELSE Min(a, Len(s))
SliceFrom(s, a) == SubSeq(s, PyIndex(s, a) + 1, Len(s))
SliceTo(s, b) == SubSeq(s, 1, PyIndex(s, b))

\* Optional[List[str]]
None == [ok |-> FALSE, lines |-> <<>>]
Some(buf) == [ok |-> TRUE, lines |-> buf]

----------------------------------------------------------------------------
(* Normalizer *)

\* The falsy result of normalize: None (normalize never returns "")
Ignorable == <<>>

\* A normalize that takes only # for a comment marker
normalize_keeps_slashes(line) ==
    LET s == strip(line) IN
    IF s = <<>> \/ startswith(s, <<"#">>) THEN Ignorable ELSE collapse(s)

normalize(line) ==
    LET s == strip(line) IN
    IF s = <<>> \/ startswith(s, <<"#">>) \/ startswith(s, <<"//">>)
    THEN Ignorable
    ELSE collapse(s)

is_structure_comment(line) ==
    LET stripped == strip(line) IN
    startswith(stripped, <<"//">>) \/ startswith(stripped, <<"#">>)

----------------------------------------------------------------------------
(* Locator *)

\* The while loop of find_fingerprint from (f_idx, t_idx): the f_idx it ends with
RECURSIVE fingerprint_walk(_, _, _, _)
fingerprint_walk(buf, fp, f_idx, t_idx) ==
    IF f_idx < Len(fp) /\ t_idx < Len(buf)
    THEN LET norm_target == normalize(buf[t_idx + 1]) IN
         IF norm_target = Ignorable
         THEN fingerprint_walk(buf, fp, f_idx, t_idx + 1)
         ELSE IF norm_target = fp[f_idx + 1]
              THEN fingerprint_walk(buf, fp, f_idx + 1, t_idx + 1)
              ELSE f_idx
    ELSE f_idx

\* The for loop of find_fingerprint from start index k
RECURSIVE fingerprint_scan(_, _, _)
fingerprint_scan(buf, fp, k) ==
    IF k >= Len(buf) THEN -1
    ELSE IF fingerprint_walk(buf, fp, 0, k) = Len(fp) THEN k
    ELSE fingerprint_scan(buf, fp, k + 1)

find_fingerprint(buf, fp) == fingerprint_scan(buf, fp, 0)

\* re.compile('^' + re.escape(sig).replace('\ ', '\s+')).match(s): every space
\* of the signature stands for one or more whitespace characters
RECURSIVE sig_match(_, _)
sig_match(sig, s) ==
    IF sig = <<>> THEN TRUE
    ELSE IF s = <<>> THEN FALSE
    ELSE IF Head(sig) = " "
         THEN /\ IsSpace(Head(s))
              /\ \/ sig_match(Tail(sig), Tail(s))
                 \/ sig_match(sig, Tail(s))
         ELSE Head(s) = Head(sig) /\ sig_match(Tail(sig), Tail(s))

EndMethod == <<".end", " ", "method">>

\* The inner for loop of find_method_range: the first '.end method' at j or later
RECURSIVE end_method_scan(_, _)
end_method_scan(buf, j) ==
    IF j >= Len(buf) THEN -1
    ELSE IF strip(buf[j + 1]) = EndMethod THEN j
    ELSE end_method_scan(buf, j + 1)

\* The outer for loop of find_method_range from index k
RECURSIVE method_scan(_, _, _)
method_scan(buf, sig, k) ==
    IF k >= Len(buf) THEN <<-1, -1>>
    ELSE IF sig_match(sig, strip(buf[k + 1]))
         THEN <<k, end_method_scan(buf, k + 1)>>
         ELSE method_scan(buf, sig, k + 1)

\* A find_method_range that takes the last '.end method' of the buffer for the end
RECURSIVE last_end_method(_, _)
last_end_method(buf, j) ==
    IF j < 0 THEN -1
    ELSE IF strip(buf[j + 1]) = EndMethod THEN j
    ELSE last_end_method(buf, j - 1)

find_method_range_last_end(buf, sig) ==
    LET r == method_scan(buf, sig, 0) IN
    IF r[1] = -1 THEN r
    ELSE <<r[1], IF end_method_scan(buf, r[1] + 1) = -1 THEN -1
                 ELSE last_end_method(buf, Len(buf) - 1)>>

find_method_range(buf, sig) == method_scan(buf, sig, 0)

----------------------------------------------------------------------------
(* Hunk appliers: each returns Some(new buffer) or None *)

Blank == <<>>

Action(type, signature, content, operations) ==
    [type |-> type, signature |-> signature, content |-> content,
     operations |-> operations]

Op(tag, line) == [op |-> tag, line |-> line]

\* The fingerprint _apply_patch builds from the Context and Remove operations
RECURSIVE build_fingerprint(_)
build_fingerprint(operations) ==
    IF operations = <<>> THEN <<>>
    ELSE LET o == Head(operations)
             norm == normalize(o.line)
         IN (IF o.op \in {" ", "-"} /\ norm # Ignorable THEN <<norm>> ELSE <<>>)
            \o build_fingerprint(Tail(operations))

\* The inner while loop of the replay: the first index at or after t of a line
\* that is not ignorable, Len(buf) when there is none
RECURSIVE skip_ignorable(_, _)
skip_ignorable(buf, t) ==
    IF t < Len(buf) /\ normalize(buf[t + 1]) = Ignorable
    THEN skip_ignorable(buf, t + 1)
    ELSE t

\* A replay whose Remove operations copy the target line they consume
RECURSIVE replay_keeps_removed(_, _, _, _, _)
replay_keeps_removed(buf, operations, op_at, target_at, modified) ==
    IF op_at >= Len(operations)
    THEN Some(modified \o SliceFrom(buf, target_at))
    ELSE LET o == operations[op_at + 1] IN
         IF o.op = "+"
         THEN replay_keeps_removed(buf, operations, op_at + 1, target_at,
                                   Append(modified, o.line))
         ELSE LET t == skip_ignorable(buf, target_at)
                  skipped == IF o.op = " "
                             THEN SubSeq(buf, target_at + 1, t)
                             ELSE <<>>
              IN IF t >= Len(buf) THEN None
                 ELSE replay_keeps_removed(buf, operations, op_at + 1, t + 1,
                          modified \o skipped \o <<buf[t + 1]>>)

\* The replay loop of _apply_patch from (op_idx, target_idx, modified_lines)
RECURSIVE replay(_, _, _, _, _)
replay(buf, operations, op_at, target_at, modified) ==
    IF op_at >= Len(operations)
    THEN Some(modified \o SliceFrom(buf, target_at))
    ELSE LET o == operations[op_at + 1] IN
         IF o.op = "+"
         THEN replay(buf, operations, op_at + 1, target_at,
                     Append(modified, o.line))
         ELSE LET t == skip_ignorable(buf, target_at)
                  skipped == IF o.op = " "
                             THEN SubSeq(buf, target_at + 1, t)
                             ELSE <<>>
              IN IF t >= Len(buf) THEN None
                 ELSE replay(buf, operations, op_at + 1, t + 1,
                             modified \o skipped \o
                             (IF o.op = " " THEN <<buf[t + 1]>> ELSE <<>>))

_apply_patch(buf, act) ==
    LET fp == build_fingerprint(act.operations)
        match_start_idx == find_fingerprint(buf, fp)
    IN IF fp = <<>> THEN None
       ELSE IF match_start_idx = -1 THEN None
       ELSE replay(buf, act.operations, 0, match_start_idx,
                   SliceTo(buf, match_start_idx))

_apply_replace(buf, act) ==
    LET r == find_method_range(buf, act.signature)
        start_idx == r[1]
        end_idx == r[2]
    IN IF start_idx = -1 THEN None
       ELSE Some(SliceTo(buf, start_idx + 1) \o act.content
                 \o SliceFrom(buf, end_idx))

_apply_remove_method(buf, act) ==
    LET r == find_method_range(buf, act.signature)
        start_idx == r[1]
        end_idx == r[2]
    IN IF start_idx = -1 THEN None
       ELSE Some(SliceTo(buf, start_idx) \o SliceFrom(buf, end_idx + 1))

\* The backward loop of _apply_create_method: the last '.end class' line
RECURSIVE last_end_class(_, _)
last_end_class(buf, k) ==
    IF k < 0 THEN -1
    ELSE IF startswith(strip(buf[k + 1]), <<".end", " ", "class">>) THEN k
    ELSE last_end_class(buf, k - 1)

_apply_create_method(buf, act) ==
    LET insert_pos == last_end_class(buf, Len(buf) - 1)
        new_content ==
            IF insert_pos > 0 /\ strip(buf[insert_pos]) # <<>>
            THEN <<Blank>> \o act.content
            ELSE act.content
    IN IF insert_pos = -1 THEN None
       ELSE Some(SliceTo(buf, insert_pos) \o new_content
                 \o SliceFrom(buf, insert_pos))

\* A field search that stops at the first '.field ' line of the buffer
first_field(buf, k) ==
    LET found == {h \in 0..k : startswith(strip(buf[h + 1]), <<".field", " ">>)}
    IN IF found = {} THEN -1
       ELSE (CHOOSE h \in found : \A g \in found : h <= g) + 1

\* The backward loop of _apply_add_field: one past the last '.field ' line
RECURSIVE last_field(_, _)
last_field(buf, k) ==
    IF k < 0 THEN -1
    ELSE IF startswith(strip(buf[k + 1]), <<".field", " ">>) THEN k + 1
    ELSE last_field(buf, k - 1)

\* The forward loop of _apply_add_field: the first '.method ' line, else one
\* past the last '.super ' line before it
RECURSIVE method_or_super(_, _, _)
method_or_super(buf, k, insert_pos) ==
    IF k >= Len(buf) THEN insert_pos
    ELSE IF startswith(strip(buf[k + 1]), <<".method", " ">>) THEN k
    ELSE IF startswith(strip(buf[k + 1]), <<".super", " ">>)
         THEN method_or_super(buf, k + 1, k + 1)
         ELSE method_or_super(buf, k + 1, insert_pos)

_apply_add_field(buf, act) ==
    LET after_field == last_field(buf, Len(buf) - 1)
        insert_pos == IF after_field # -1 THEN after_field
                      ELSE method_or_super(buf, 0, -1)
        new_content ==
            IF insert_pos > 0 /\ strip(buf[insert_pos]) # <<>>
            THEN <<Blank>> \o act.content
            ELSE act.content
    IN IF act.content = <<>> THEN None
       ELSE IF insert_pos = -1 THEN None
       ELSE Some(SliceTo(buf, insert_pos) \o new_content
                 \o SliceFrom(buf, insert_pos))

\* re.compile(r'^\.field\s+.*' + re.escape(field_sig)).search(s)
field_match(field_sig, s) ==
    /\ Len(s) >= 2
    /\ s[1] = ".field"
    /\ IsSpace(s[2])
    /\ \E j \in 3..Len(s) :
          /\ j + Len(field_sig) - 1 <= Len(s)
          /\ SubSeq(s, j, j + Len(field_sig) - 1) = field_sig

\* A removal that deletes every matching field line from index k on
remove_field_every(buf, field_sig, k) ==
    LET kept == SelectSeq(SliceFrom(buf, k),
                          LAMBDA l : ~field_match(field_sig, strip(l)))
    IN IF Len(kept) = Len(buf) - k THEN None
       ELSE Some(SliceTo(buf, k) \o kept)

\* The for loop of _apply_remove_field from index k
RECURSIVE remove_field_scan(_, _, _)
remove_field_scan(buf, field_sig, k) ==
    IF k >= Len(buf) THEN None
    ELSE IF field_match(field_sig, strip(buf[k + 1]))
         THEN Some(SliceTo(buf, k) \o SliceFrom(buf, k + 1))
         ELSE remove_field_scan(buf, field_sig, k + 1)

_apply_remove_field(buf, act) ==
    IF act.signature = <<>> THEN None
    ELSE remove_field_scan(buf, act.signature, 0)

\* The dispatch of apply_file_patch on action['type']
apply_action(buf, act) ==
    CASE act.type = "REPLACE" -> _apply_replace(buf, act)
      [] act.type = "PATCH" -> _apply_patch(buf, act)
      [] act.type = "CREATE_METHOD" -> _apply_create_method(buf, act)
      [] act.type = "REMOVE_METHOD" -> _apply_remove_method(buf, act)
      [] act.type = "ADD_FIELD" -> _apply_add_field(buf, act)
      [] act.type = "REMOVE_FIELD" -> _apply_remove_field(buf, act)
      [] OTHER -> None

----------------------------------------------------------------------------
(* Values the variables hold while their part of the program is not running *)

NoAction == Action("NONE", <<>>, <<>>, <<>>)
NoDrift == [at |-> -1, line |-> <<>>, before |-> -1, old |-> <<>>]
Patch(type, file_path, actions, content) ==
    [type |-> type, file_path |-> file_path, actions |-> actions,
     content |-> content]
NoPatch == Patch("NONE", <<>>, <<>>, <<>>)
Paths == {<<"A.smali">>}
NoFile == [exists |-> FALSE, content |-> <<>>]
File(content) == [exists |-> TRUE, content |-> content]

HunkIdle ==
    /\ lines = <<>>
    /\ action = NoAction
    /\ result = None
    /\ fingerprint = <<>>
    /\ match_idx = -1
    /\ drift = NoDrift
    /\ op_idx = 0
    /\ target_idx = 0
    /\ modified_lines = <<>>
    /\ hpc = "idle"

ParseIdle ==
    /\ input = <<>>
    /\ i = 0
    /\ patches = <<>>
    /\ credits = <<>>
    /\ cur = NoPatch
    /\ pstate = "idle"

ApplyIdle ==
    /\ disk = [p \in Paths |-> NoFile]
    /\ dryDisk = [p \in Paths |-> NoFile]
    /\ patch = NoPatch
    /\ log = <<>>
    /\ dryLog = <<>>

----------------------------------------------------------------------------
(* find_fingerprint on a target that drifts between two runs *)

LineXY == <<"x", " ", "y">>
LineXYSpaced == <<"\t", "x", " ", " ", "y">>
LineB == <<"b">>
LineC == <<"c">>
HashComment == <<"#", "n">>
SlashComment == <<" ", "//", "n">>

TargetLines == {LineXYSpaced, LineB, Blank, HashComment}
DriftLines == {Blank, HashComment, SlashComment, LineB, LineXYSpaced}
FingerprintLines == {LineXY, LineB}

InitFind ==
    /\ lines \in SeqUpTo(TargetLines, MaxTarget)
    /\ fingerprint \in SeqUpTo(FingerprintLines, MaxFingerprint)
    /\ action = NoAction
    /\ result = None
    /\ match_idx = -1
    /\ drift = NoDrift
    /\ op_idx = 0
    /\ target_idx = 0
    /\ modified_lines = <<>>
    /\ hpc = "ready"
    /\ ParseIdle
    /\ ApplyIdle

\* One call of find_fingerprint(lines, fingerprint)
FindFingerprint ==
    /\ hpc = "ready"
    /\ match_idx' = find_fingerprint(lines, fingerprint)
    /\ hpc' = "found"
    /\ UNCHANGED <<lines, action, result, fingerprint, drift>>
    /\ UNCHANGED replayVars
    /\ UNCHANGED parseVars
    /\ UNCHANGED applyVars

\* The target file changes between two runs: one line is inserted at index at
Drift ==
    /\ hpc = "found"
    /\ drift = NoDrift
    /\ \E at \in 0..Len(lines), l \in DriftLines :
          /\ lines' = SliceTo(lines, at) \o <<l>> \o SliceFrom(lines, at)
          /\ drift' = [at |-> at, line |-> l, before |-> match_idx,
                       old |-> lines]
    /\ hpc' = "ready"
    /\ UNCHANGED <<action, result, fingerprint, match_idx>>
    /\ UNCHANGED replayVars
    /\ UNCHANGED parseVars
    /\ UNCHANGED applyVars

NextFind == FindFingerprint \/ Drift

SpecFind == InitFind /\ [][NextFind]_vars

----------------------------------------------------------------------------
(* _apply_patch on one buffer *)

PatchTargetLines == {LineXYSpaced, LineB, Blank, HashComment}
ContextLines == {LineXY, LineB}
AddLines == {LineC, LineB}

\* The operation list [Context a, Remove b, Add c, Context d]
ContextRemoveAddContext(a, b, c, d) ==
    <<Op(" ", a), Op("-", b), Op("+", c), Op(" ", d)>>

PatchActions ==
    {Action("PATCH", <<>>, <<>>, ContextRemoveAddContext(a, b, c, d)) :
        a \in ContextLines, b \in ContextLines, c \in AddLines,
        d \in ContextLines}

InitPatch ==
    /\ lines \in SeqUpTo(PatchTargetLines, MaxPatchTarget)
    /\ action \in PatchActions
    /\ result = None
    /\ fingerprint = <<>>
    /\ match_idx = -1
    /\ drift = NoDrift
    /\ op_idx = 0
    /\ target_idx = 0
    /\ modified_lines = <<>>
    /\ hpc = "ready"
    /\ ParseIdle
    /\ ApplyIdle

\* One call of _apply_patch(lines, action)
ApplyPatch ==
    /\ hpc = "ready"
    /\ action.type = "PATCH"
    /\ result' = _apply_patch(lines, action)
    /\ hpc' = "applied"
    /\ UNCHANGED <<lines, action, fingerprint, match_idx, drift>>
    /\ UNCHANGED replayVars
    /\ UNCHANGED parseVars
    /\ UNCHANGED applyVars

NextPatch == ApplyPatch

SpecPatch == InitPatch /\ [][NextPatch]_vars

----------------------------------------------------------------------------
(* _apply_patch step by step: one step for the search of the fingerprint, one *)
(* per iteration of the replay loop, one for the return.  The operation lists *)
(* are the ones parse_patch_operations builds from a PATCH body, in which a   *)
(* blank or comment line is a Context operation.                              *)

ReplayTargetLines == {LineXYSpaced, LineB, Blank}

ReplayOperations ==
    {Op(" ", LineXY), Op(" ", HashComment), Op("-", LineB), Op("+", LineC)}

ReplayActions ==
    {Action("PATCH", <<>>, <<>>, ops) : ops \in SeqUpTo(ReplayOperations, MaxOps)}

InitReplay ==
    /\ lines \in SeqUpTo(ReplayTargetLines, MaxReplayTarget)
    /\ action \in ReplayActions
    /\ result = None
    /\ fingerprint = <<>>
    /\ match_idx = -1
    /\ drift = NoDrift
    /\ op_idx = 0
    /\ target_idx = 0
    /\ modified_lines = <<>>
    /\ hpc = "ready"
    /\ ParseIdle
    /\ ApplyIdle

ReplayFrame ==
    /\ UNCHANGED <<lines, action, drift>>
    /\ UNCHANGED parseVars
    /\ UNCHANGED applyVars

\* The replay loop is running and has an operation left
InReplay == hpc = "replay" /\ op_idx < Len(action.operations)

\* The operation of this iteration
CurrentOp == action.operations[op_idx + 1]

\* _apply_patch up to the replay loop: the fingerprint is built and searched
PatchLocate ==
    /\ hpc = "ready"
    /\ fingerprint' = build_fingerprint(action.operations)
    /\ match_idx' = IF fingerprint' = <<>> THEN -1
                    ELSE find_fingerprint(lines, fingerprint')
    /\ IF match_idx' = -1
       THEN /\ result' = None
            /\ hpc' = "not_found"
            /\ UNCHANGED replayVars
       ELSE /\ modified_lines' = SliceTo(lines, match_idx')
            /\ op_idx' = 0
            /\ target_idx' = match_idx'
            /\ hpc' = "replay"
            /\ UNCHANGED result
    /\ ReplayFrame

\* One iteration for an Add operation
ReplayAdd ==
    /\ InReplay
    /\ CurrentOp.op = "+"
    /\ modified_lines' = Append(modified_lines, CurrentOp.line)
    /\ op_idx' = op_idx + 1
    /\ UNCHANGED <<target_idx, result, fingerprint, match_idx, hpc>>
    /\ ReplayFrame

\* One iteration for a Context operation: the ignorable lines and the target
\* line after them are copied
ReplayContext ==
    /\ InReplay
    /\ CurrentOp.op = " "
    /\ LET t == skip_ignorable(lines, target_idx) IN
          /\ t < Len(lines)
          /\ modified_lines' = modified_lines \o SubSeq(lines, target_idx + 1, t)
                               \o <<lines[t + 1]>>
          /\ target_idx' = t + 1
    /\ op_idx' = op_idx + 1
    /\ UNCHANGED <<result, fingerprint, match_idx, hpc>>
    /\ ReplayFrame

\* One iteration for a Remove operation: the ignorable lines and the target
\* line after them are passed over
ReplayRemove ==
    /\ InReplay
    /\ CurrentOp.op = "-"
    /\ LET t == skip_ignorable(lines, target_idx) IN
          /\ t < Len(lines)
          /\ target_idx' = t + 1
    /\ op_idx' = op_idx + 1
    /\ UNCHANGED <<modified_lines, result, fingerprint, match_idx, hpc>>
    /\ ReplayFrame

\* A Context or Remove operation finds no target line left: 'Unexpected end of
\* file', None is returned
ReplayEndOfFile ==
    /\ InReplay
    /\ CurrentOp.op \in {" ", "-"}
    /\ skip_ignorable(lines, target_idx) >= Len(lines)
    /\ result' = None
    /\ hpc' = "end_of_file"
    /\ UNCHANGED <<replayVars, fingerprint, match_idx>>
    /\ ReplayFrame

\* The loop is over: the rest of the target is appended and returned
ReplayReturn ==
    /\ hpc = "replay"
    /\ op_idx >= Len(action.operations)
    /\ result' = Some(modified_lines \o SliceFrom(lines, target_idx))
    /\ hpc' = "applied"
    /\ UNCHANGED <<replayVars, fingerprint, match_idx>>
    /\ ReplayFrame

NextReplay ==
    \/ PatchLocate
    \/ ReplayAdd
    \/ ReplayContext
    \/ ReplayRemove
    \/ ReplayEndOfFile
    \/ ReplayReturn

SpecReplay == InitReplay /\ [][NextReplay]_vars

----------------------------------------------------------------------------
(* _apply_replace and _apply_remove_method on one buffer *)

MethodFoo == <<".method", " ", "foo()V">>
MethodFooSpaced == <<" ", ".method", "\t", " ", "foo()V">>
MethodBar == <<".method", " ", "bar()V">>
BodyLine == <<"return-void">>
NewBodyLine == <<"nop">>

MethodTargetLines == {MethodFooSpaced, MethodBar, EndMethod, BodyLine}

MethodActions ==
    {Action("REPLACE", sig, content, <<>>) :
        sig \in {MethodFoo, MethodBar},
        content \in {<<>>, <<NewBodyLine>>, <<BodyLine>>}}
    \cup {Action("REMOVE_METHOD", sig, <<>>, <<>>) :
            sig \in {MethodFoo, MethodBar}}

InitMethod ==
    /\ lines \in SeqUpTo(MethodTargetLines, MaxMethodTarget)
    /\ action \in MethodActions
    /\ result = None
    /\ fingerprint = <<>>
    /\ match_idx = -1
    /\ drift = NoDrift
    /\ op_idx = 0
    /\ target_idx = 0
    /\ modified_lines = <<>>
    /\ hpc = "ready"
    /\ ParseIdle
    /\ ApplyIdle

\* One call of _apply_replace(lines, action)
ApplyReplace ==
    /\ hpc = "ready"
    /\ action.type = "REPLACE"
    /\ result' = _apply_replace(lines, action)
    /\ hpc' = "applied"
    /\ UNCHANGED <<lines, action, fingerprint, match_idx, drift>>
    /\ UNCHANGED replayVars
    /\ UNCHANGED parseVars
    /\ UNCHANGED applyVars

\* One call of _apply_remove_method(lines, action)
ApplyRemoveMethod ==
    /\ hpc = "ready"
    /\ action.type = "REMOVE_METHOD"
    /\ result' = _apply_remove_method(lines, action)
    /\ hpc' = "applied"
    /\ UNCHANGED <<lines, action, fingerprint, match_idx, drift>>
    /\ UNCHANGED replayVars
    /\ UNCHANGED parseVars
    /\ UNCHANGED applyVars

NextMethod == ApplyReplace \/ ApplyRemoveMethod

SpecMethod == InitMethod /\ [][NextMethod]_vars

----------------------------------------------------------------------------
(* _apply_add_field and _apply_remove_field on one buffer *)

FieldA == <<".field", " ", "private", " ", "a:I">>
FieldB == <<".field", " ", "public", " ", "b:Z">>
FieldAIndented == <<" ", ".field", " ", "private", " ", "a:I">>
FieldATab == <<".field", "\t", "a:I">>
SuperLine == <<".super", " ", "LObject;">>
IgetLine == <<"iget", " ", "a:I">>

FieldTargetLines ==
    {FieldAIndented, FieldB, FieldATab, SuperLine, MethodFoo, Blank, IgetLine}

FieldActions ==
    {Action("ADD_FIELD", <<>>, content, <<>>) :
        content \in {<<>>, <<FieldB>>, <<FieldB, FieldA>>}}
    \cup {Action("REMOVE_FIELD", sig, <<>>, <<>>) :
            sig \in {<<>>, <<"a:I">>, <<"b:Z">>, <<"private", " ", "a:I">>}}

InitField ==
    /\ lines \in SeqUpTo(FieldTargetLines, MaxFieldTarget)
    /\ action \in FieldActions
    /\ result = None
    /\ fingerprint = <<>>
    /\ match_idx = -1
    /\ drift = NoDrift
    /\ op_idx = 0
    /\ target_idx = 0
    /\ modified_lines = <<>>
    /\ hpc = "ready"
    /\ ParseIdle
    /\ ApplyIdle

\* One call of _apply_add_field(lines, action)
ApplyAddField ==
    /\ hpc = "ready"
    /\ action.type = "ADD_FIELD"
    /\ result' = _apply_add_field(lines, action)
    /\ hpc' = "applied"
    /\ UNCHANGED <<lines, action, fingerprint, match_idx, drift>>
    /\ UNCHANGED replayVars
    /\ UNCHANGED parseVars
    /\ UNCHANGED applyVars

\* One call of _apply_remove_field(lines, action)
ApplyRemoveField ==
    /\ hpc = "ready"
    /\ action.type = "REMOVE_FIELD"
    /\ result' = _apply_remove_field(lines, action)
    /\ hpc' = "applied"
    /\ UNCHANGED <<lines, action, fingerprint, match_idx, drift>>
    /\ UNCHANGED replayVars
    /\ UNCHANGED parseVars
    /\ UNCHANGED applyVars

NextField == ApplyAddField \/ ApplyRemoveField

SpecField == InitField /\ [][NextField]_vars

----------------------------------------------------------------------------
(* The PATCH action of src/smali_patch.py, the earlier applier: its functions *)
(* carry the prefix smali_patch_ where patch_helper.py has one of the same     *)
(* name.  An action's signature field holds action['method_sig'].             *)

\* sub in line
contains(line, sub) ==
    \E j \in 1..(Len(line) - Len(sub) + 1) :
        SubSeq(line, j, j + Len(sub) - 1) = sub

\* re.match('^\s*' + escaped signature, line), on the line as it is
smali_patch_sig_match(method_sig, line) == sig_match(method_sig, lstrip(line))

\* The inner loop of find_method_range: the first line at j or later that
\* starts with '.end method', untrimmed
RECURSIVE smali_patch_end_scan(_, _)
smali_patch_end_scan(buf, j) ==
    IF j >= Len(buf) THEN -1
    ELSE IF startswith(buf[j + 1], EndMethod) THEN j
    ELSE smali_patch_end_scan(buf, j + 1)

RECURSIVE smali_patch_method_scan(_, _, _)
smali_patch_method_scan(buf, method_sig, k) ==
    IF k >= Len(buf) THEN <<-1, -1>>
    ELSE IF smali_patch_sig_match(method_sig, buf[k + 1])
         THEN IF smali_patch_end_scan(buf, k) = -1 THEN <<-1, -1>>
              ELSE <<k, smali_patch_end_scan(buf, k)>>
         ELSE smali_patch_method_scan(buf, method_sig, k + 1)

smali_patch_find_method_range(buf, method_sig) ==
    smali_patch_method_scan(buf, method_sig, 0)

is_line_directive(line) == startswith(strip(line), <<".line", " ">>)

filter_line_directives(buf) ==
    SelectSeq(buf, LAMBDA l : ~is_line_directive(l))

\* clean_to_original: the indices of the lines that are no .line directive
RECURSIVE clean_to_original(_, _)
clean_to_original(buf, k) ==
    IF k >= Len(buf) THEN <<>>
    ELSE (IF is_line_directive(buf[k + 1]) THEN <<>> ELSE <<k>>)
         \o clean_to_original(buf, k + 1)

\* Every context line is in the line of buf it faces, from index k on
context_at(buf, context_lines, k) ==
    \A j \in 1..Len(context_lines) :
        /\ k + j <= Len(buf)
        /\ contains(buf[k + j], context_lines[j])

\* The first index of range(from, to) at which the context lines match
RECURSIVE context_scan(_, _, _, _)
context_scan(buf, context_lines, from, to) ==
    IF from >= to THEN -1
    ELSE IF context_at(buf, context_lines, from) THEN from
    ELSE context_scan(buf, context_lines, from + 1, to)

NoRange == <<>>

find_context(buf, context_lines, search_range) ==
    IF context_lines = <<>> THEN -1
    ELSE context_scan(buf, context_lines,
             IF search_range # NoRange THEN search_range[1] ELSE 0,
             IF search_range # NoRange THEN search_range[2]
             ELSE Len(buf) - Len(context_lines) + 1)

find_exact_position(buf, context_index, context_lines) ==
    context_scan(buf, context_lines, Max(0, context_index - 5),
                 Min(Len(buf), context_index + 10))

\* The positions apply_modifications gives the operations with the tag: the
\* number of Context operations before each
RECURSIVE positions_of(_, _, _)
positions_of(operations, tag, current_pos) ==
    IF operations = <<>> THEN <<>>
    ELSE LET o == Head(operations) IN
         (IF o.op = tag THEN <<[pos |-> current_pos, content |-> o.line]>>
          ELSE <<>>)
         \o positions_of(Tail(operations), tag,
                         IF o.op = " " THEN current_pos + 1 ELSE current_pos)

\* The first index of range(from, to) whose line holds the content, else -1
RECURSIVE holding_scan(_, _, _, _)
holding_scan(buf, content, from, to) ==
    IF from >= to THEN -1
    ELSE IF contains(buf[from + 1], content) THEN from
    ELSE holding_scan(buf, content, from + 1, to)

\* The removals, from the last to the first: the buffer and the offset after
RECURSIVE apply_removes(_, _, _, _, _)
apply_removes(new_lines, offset, context_index, removes, k) ==
    IF k < 1 THEN [lines |-> new_lines, offset |-> offset]
    ELSE LET target == context_index + removes[k].pos + offset
             found == holding_scan(new_lines, removes[k].content,
                                   Max(0, target - 2),
                                   Min(Len(new_lines), target + 3))
         IN IF found = -1
            THEN apply_removes(new_lines, offset, context_index, removes, k - 1)
            ELSE apply_removes(SliceTo(new_lines, found)
                               \o SliceFrom(new_lines, found + 1),
                               offset - 1, context_index, removes, k - 1)

\* The additions, from the first to the last: list.insert at the target index
RECURSIVE apply_adds(_, _, _, _, _)
apply_adds(new_lines, offset, context_index, adds, k) ==
    IF k > Len(adds) THEN new_lines
    ELSE LET target == context_index + adds[k].pos + offset IN
         apply_adds(SliceTo(new_lines, target) \o <<adds[k].content>>
                    \o SliceFrom(new_lines, target),
                    offset + 1, context_index, adds, k + 1)

apply_modifications(buf, context_index, operations) ==
    LET removes == positions_of(operations, "-", 0)
        adds == positions_of(operations, "+", 0)
        removed == apply_removes(buf, 0, context_index, removes, Len(removes))
    IN apply_adds(removed.lines, removed.offset, context_index, adds, 1)

\* What apply_patch_action returns, with the position it chose for the edit
\* (-1 when it returned before choosing one)
apply_patch_action(buf, act, dry_run) ==
    LET operations == act.operations
        method_sig == act.signature
        context_ops == SelectSeq(operations, LAMBDA o : o.op = " ")
        context_lines == [k \in 1..Len(context_ops) |-> context_ops[k].line]
        context_lines_clean == filter_line_directives(context_lines)
        range == smali_patch_find_method_range(buf, method_sig)
        context_index_clean ==
            find_context(filter_line_directives(buf), context_lines_clean,
                         NoRange)
        context_index == clean_to_original(buf, 0)[context_index_clean + 1]
        exact_position == find_exact_position(buf, context_index, context_lines)
        failed == [result |-> None, exact_position |-> -1]
    IN IF operations = <<>> THEN failed
       ELSE IF context_lines_clean = <<>> THEN failed
       ELSE IF method_sig # <<>> /\ range[1] = -1 THEN failed
       ELSE IF context_index_clean = -1 THEN failed
       ELSE IF exact_position = -1 THEN failed
       ELSE [result |-> Some(apply_modifications(buf, exact_position,
                                                 operations)),
             exact_position |-> exact_position]

NopLine == <<"nop">>
NopIndented == <<"\t", "nop">>
LineDirective == <<".line", " ", "5">>

SmaliTargetLines == {NopIndented, LineB, MethodFoo, EndMethod, LineDirective}

SmaliOperations ==
    {<<>>,
     <<Op("+", LineC)>>,
     <<Op(" ", NopLine), Op("+", LineC)>>,
     <<Op(" ", NopLine), Op("-", LineB)>>,
     <<Op(" ", NopLine), Op("-", LineB), Op("+", LineC)>>,
     <<Op(" ", LineDirective), Op(" ", NopLine), Op("+", LineC)>>}

SmaliActions ==
    {Action("PATCH", method_sig, <<>>, ops) :
        method_sig \in {<<>>, MethodFoo}, ops \in SmaliOperations}

InitSmaliPatch ==
    /\ lines \in SeqUpTo(SmaliTargetLines, MaxSmaliTarget)
    /\ action \in SmaliActions
    /\ result = None
    /\ fingerprint = <<>>
    /\ match_idx = -1
    /\ drift = NoDrift
    /\ op_idx = 0
    /\ target_idx = 0
    /\ modified_lines = <<>>
    /\ hpc = "ready"
    /\ ParseIdle
    /\ ApplyIdle

\* One call of apply_patch_action(lines, action, dry_run); match_idx keeps the
\* position it chose
ApplyPatchAction ==
    /\ hpc = "ready"
    /\ \E dry_run \in BOOLEAN :
          LET r == apply_patch_action(lines, action, dry_run) IN
          /\ result' = r.result
          /\ match_idx' = r.exact_position
    /\ hpc' = "applied"
    /\ UNCHANGED <<lines, action, fingerprint, drift>>
    /\ UNCHANGED replayVars
    /\ UNCHANGED parseVars
    /\ UNCHANGED applyVars

NextSmaliPatch == ApplyPatchAction

SpecSmaliPatch == InitSmaliPatch /\ [][NextSmaliPatch]_vars

----------------------------------------------------------------------------
(* Directive parser: parse_patches and parse_file_block, one loop iteration   *)
(* per step.  pstate is "top" inside the loop of parse_patches, "file" inside *)
(* the loop of parse_file_block, "done" once parse_patches has returned and   *)
(* "raised" once it has been left by an exception.                            *)

KEYWORDS ==
    {"FILE", "CREATE", "REMOVE", "REPLACE", "PATCH", "CREATE_METHOD",
     "REMOVE_METHOD", "ADD_FIELD", "REMOVE_FIELD", "CREDIT", "FIND_REPLACE",
     "END"}

\* s[n:] for a line s, n counted in tokens
Drop(s, n) == SubSeq(s, n + 1, Len(s))

\* line_strip.split(' ')[0] in KEYWORDS: the text before the first space
first_word_is_keyword(line_strip) ==
    /\ line_strip # <<>>
    /\ line_strip[1] \in KEYWORDS
    /\ Len(line_strip) = 1 \/ line_strip[2] = " "

\* A content block that leaves its END line to the caller
RECURSIVE read_content_scan_keeps_end(_, _, _)
read_content_scan_keeps_end(buf, k, content) ==
    IF k >= Len(buf) THEN [content |-> content, next |-> k]
    ELSE IF first_word_is_keyword(strip(buf[k + 1]))
         THEN [content |-> content, next |-> k]
         ELSE read_content_scan_keeps_end(buf, k + 1, Append(content, buf[k + 1]))

\* The while loop of read_content_block from index k
RECURSIVE read_content_scan(_, _, _)
read_content_scan(buf, k, content) ==
    IF k >= Len(buf) THEN [content |-> content, next |-> k]
    ELSE IF first_word_is_keyword(strip(buf[k + 1]))
         THEN IF strip(buf[k + 1])[1] = "END"
              THEN [content |-> content, next |-> k + 1]
              ELSE [content |-> content, next |-> k]
         ELSE read_content_scan(buf, k + 1, Append(content, buf[k + 1]))

read_content_block(buf, start_index) == read_content_scan(buf, start_index, <<>>)

RECURSIVE parse_patch_operations(_)
parse_patch_operations(content_lines) ==
    IF content_lines = <<>> THEN <<>>
    ELSE LET line == Head(content_lines) IN
         <<IF startswith(line, <<"+", " ">>) THEN Op("+", Drop(line, 2))
           ELSE IF startswith(line, <<"-", " ">>) THEN Op("-", Drop(line, 2))
           ELSE Op(" ", line)>>
         \o parse_patch_operations(Tail(content_lines))

\* The action keyword parse_file_block recognises in a stripped line
action_type_of(line) ==
    IF startswith(line, <<"REPLACE", " ">>) THEN "REPLACE"
    ELSE IF startswith(line, <<"PATCH">>) THEN "PATCH"
    ELSE IF line = <<"CREATE_METHOD">> THEN "CREATE_METHOD"
    ELSE IF startswith(line, <<"REMOVE_METHOD", " ">>) THEN "REMOVE_METHOD"
    ELSE IF startswith(line, <<"ADD_FIELD">>) THEN "ADD_FIELD"
    ELSE IF startswith(line, <<"REMOVE_FIELD", " ">>) THEN "REMOVE_FIELD"
    ELSE "NONE"

\* parse_action_block: the action and the index after its block
parse_action_block(buf, start_index, action_type) ==
    LET line == strip(buf[start_index + 1])
        header ==
            IF action_type \in {"PATCH", "ADD_FIELD"} THEN strip(Drop(line, 1))
            ELSE IF action_type \in {"REPLACE", "REMOVE_METHOD", "REMOVE_FIELD"}
                 THEN strip(Drop(line, 2))
            ELSE <<>>
        block == read_content_block(buf, start_index + 1)
    IN [action |->
            IF action_type = "PATCH"
            THEN Action(action_type, header, <<>>,
                        parse_patch_operations(block.content))
            ELSE Action(action_type, header, block.content, <<>>),
        next |-> block.next]

\* parse_create_block: the CREATE patch and the index after its block
parse_create_block(buf, start_index) ==
    LET block == read_content_block(buf, start_index + 1) IN
    [patch |-> Patch("CREATE", strip(Drop(strip(buf[start_index + 1]), 2)),
                     <<>>, block.content),
     next |-> block.next]

FileLine == <<"FILE", " ", "A.smali">>
EndLine == <<"END">>
CreditLine == <<"CREDIT", " ", "me">>
FindReplaceLine == <<"FIND_REPLACE", " ", "\"a\"", " ", "\"b\"">>
ReplaceLine == <<"REPLACE", " ", ".method", " ", "foo()V">>
PatchLine == <<"PATCH">>
AddOpLine == <<"+", " ", "nop">>
CreateLine == <<"CREATE", " ", "A.smali">>
RemoveLine == <<"REMOVE", " ", "A.smali">>

PatchFileLines ==
    {FileLine, EndLine, CreditLine, FindReplaceLine, ReplaceLine, PatchLine,
     AddOpLine, CreateLine, RemoveLine, HashComment}

InitParse ==
    /\ input \in SeqUpTo(PatchFileLines, MaxInput)
    /\ i = 0
    /\ patches = <<>>
    /\ credits = <<>>
    /\ cur = NoPatch
    /\ pstate = "top"
    /\ HunkIdle
    /\ ApplyIdle

\* The stripped line the parser looks at
line_strip == strip(input[i + 1])

AtTop == pstate = "top" /\ i < Len(input)
InFile == pstate = "file" /\ i < Len(input)
ParseFrame == UNCHANGED hunkVars /\ UNCHANGED applyVars /\ UNCHANGED input

\* parse_patches: a blank line or a comment
TopSkip ==
    /\ AtTop
    /\ line_strip = <<>> \/ is_structure_comment(line_strip)
    /\ i' = i + 1
    /\ UNCHANGED <<patches, credits, cur, pstate>>
    /\ ParseFrame

IsTopSkip == line_strip = <<>> \/ is_structure_comment(line_strip)

\* parse_patches: CREDIT <text>
TopCredit ==
    /\ AtTop
    /\ ~IsTopSkip
    /\ startswith(line_strip, <<"CREDIT", " ">>)
    /\ credits' = Append(credits, strip(Drop(line_strip, 2)))
    /\ i' = i + 1
    /\ UNCHANGED <<patches, cur, pstate>>
    /\ ParseFrame

\* parse_patches: FILE <path> enters parse_file_block
TopFile ==
    /\ AtTop
    /\ ~IsTopSkip
    /\ startswith(line_strip, <<"FILE", " ">>)
    /\ cur' = Patch("FILE", strip(Drop(line_strip, 2)), <<>>, <<>>)
    /\ i' = i + 1
    /\ pstate' = "file"
    /\ UNCHANGED <<patches, credits>>
    /\ ParseFrame

\* parse_patches: CREATE <path> and its content block
TopCreate ==
    /\ AtTop
    /\ ~IsTopSkip
    /\ startswith(line_strip, <<"CREATE", " ">>)
    /\ patches' = Append(patches, parse_create_block(input, i).patch)
    /\ i' = parse_create_block(input, i).next
    /\ UNCHANGED <<credits, cur, pstate>>
    /\ ParseFrame

\* parse_patches: REMOVE <path>
TopRemove ==
    /\ AtTop
    /\ ~IsTopSkip
    /\ startswith(line_strip, <<"REMOVE", " ">>)
    /\ patches' = Append(patches,
                         Patch("REMOVE", strip(Drop(line_strip, 2)), <<>>, <<>>))
    /\ i' = i + 1
    /\ UNCHANGED <<credits, cur, pstate>>
    /\ ParseFrame

\* parse_patches: FIND_REPLACE ... evaluates fr_pattern, a name the module
\* never binds: NameError leaves parse_patches without a result
TopFindReplace ==
    /\ AtTop
    /\ ~IsTopSkip
    /\ startswith(line_strip, <<"FIND_REPLACE", " ">>)
    /\ pstate' = "raised"
    /\ UNCHANGED <<i, patches, credits, cur>>
    /\ ParseFrame

\* parse_patches: any other line
TopOther ==
    /\ AtTop
    /\ ~IsTopSkip
    /\ \A kw \in {"CREDIT", "FILE", "CREATE", "REMOVE", "FIND_REPLACE"} :
          ~startswith(line_strip, <<kw, " ">>)
    /\ i' = i + 1
    /\ UNCHANGED <<patches, credits, cur, pstate>>
    /\ ParseFrame

\* parse_patches: the loop ends, (patches, credits) is returned
TopReturn ==
    /\ pstate = "top"
    /\ i >= Len(input)
    /\ pstate' = "done"
    /\ UNCHANGED <<i, patches, credits, cur>>
    /\ ParseFrame

IsBlockStart ==
    \E kw \in {"FILE", "CREATE", "REMOVE"} : startswith(line_strip, <<kw, " ">>)

\* parse_file_block: a new FILE, CREATE or REMOVE closes the block, the line is
\* left to parse_patches
FileImplicitEnd ==
    /\ InFile
    /\ IsBlockStart
    /\ patches' = Append(patches, cur)
    /\ cur' = NoPatch
    /\ pstate' = "top"
    /\ UNCHANGED <<i, credits>>
    /\ ParseFrame

\* parse_file_block: a blank line or a comment
FileSkip ==
    /\ InFile
    /\ ~IsBlockStart
    /\ IsTopSkip
    /\ i' = i + 1
    /\ UNCHANGED <<patches, credits, cur, pstate>>
    /\ ParseFrame

\* parse_file_block: END closes the block
FileEnd ==
    /\ InFile
    /\ line_strip = <<"END">>
    /\ patches' = Append(patches, cur)
    /\ cur' = NoPatch
    /\ i' = i + 1
    /\ pstate' = "top"
    /\ UNCHANGED credits
    /\ ParseFrame

\* parse_file_block: an action keyword and its content block
FileAction ==
    /\ InFile
    /\ ~IsBlockStart
    /\ ~IsTopSkip
    /\ action_type_of(line_strip) # "NONE"
    /\ LET parsed == parse_action_block(input, i, action_type_of(line_strip)) IN
          /\ cur' = [cur EXCEPT !.actions = Append(@, parsed.action)]
          /\ i' = parsed.next
    /\ UNCHANGED <<patches, credits, pstate>>
    /\ ParseFrame

\* parse_file_block: any other line
FileOther ==
    /\ InFile
    /\ ~IsBlockStart
    /\ ~IsTopSkip
    /\ line_strip # <<"END">>
    /\ action_type_of(line_strip) = "NONE"
    /\ i' = i + 1
    /\ UNCHANGED <<patches, credits, cur, pstate>>
    /\ ParseFrame

\* parse_file_block: the input ends inside the block
FileReturn ==
    /\ pstate = "file"
    /\ i >= Len(input)
    /\ patches' = Append(patches, cur)
    /\ cur' = NoPatch
    /\ pstate' = "top"
    /\ UNCHANGED <<i, credits>>
    /\ ParseFrame

NextParse ==
    \/ TopSkip
    \/ TopCredit
    \/ TopFile
    \/ TopCreate
    \/ TopRemove
    \/ TopFindReplace
    \/ TopOther
    \/ TopReturn
    \/ FileImplicitEnd
    \/ FileSkip
    \/ FileEnd
    \/ FileAction
    \/ FileOther
    \/ FileReturn

SpecParse == InitParse /\ [][NextParse]_vars

----------------------------------------------------------------------------
(* Patch application against the filesystem.  A file is the sequence of its  *)
(* newline-terminated lines.  The run applies the same Patch again and again, *)
(* up to MaxRuns times, once for real and once with dry_run set; every        *)
(* application reads the file as the run before it left it.                   *)

\* What reading back f.write('\n'.join(lines) + '\n') yields
write_text(buf) == IF buf = <<>> THEN <<Blank>> ELSE buf

\* The for loop of apply_file_patch from action j on
RECURSIVE run_actions(_, _, _)
run_actions(modified, actions, j) ==
    IF j > Len(actions)
    THEN [ok |-> TRUE, lines |-> modified, failed_at |-> 0]
    ELSE LET r == apply_action(modified, actions[j]) IN
         IF r = None
         THEN [ok |-> FALSE, lines |-> modified, failed_at |-> j]
         ELSE run_actions(r.lines, actions, j + 1)

\* What one application reports: the outcome tag, the file it leaves, the
\* buffer it computed, the action that failed (0 for none) and whether it
\* wrote to the filesystem
Applied(outcome, before, after, would_be, failed_at, wrote) ==
    [outcome |-> outcome, before |-> before, after |-> after,
     would_be |-> would_be, failed_at |-> failed_at, wrote |-> wrote]

\* An apply_file_patch that writes the buffer it has when an action fails
apply_file_patch_writes_partial(file, p, dry_run) ==
    IF ~file.exists
    THEN Applied("failed", file, file, <<>>, 0, FALSE)
    ELSE LET original_lines == file.content
             run == run_actions(original_lines, p.actions, 1)
         IN IF ~run.ok
            THEN Applied("hunk_failed", file, File(write_text(run.lines)),
                         run.lines, run.failed_at, TRUE)
            ELSE IF original_lines = run.lines
            THEN Applied("skipped", file, file, run.lines, 0, FALSE)
            ELSE IF dry_run
            THEN Applied("applied", file, file, run.lines, 0, FALSE)
            ELSE Applied("applied", file, File(write_text(run.lines)),
                         run.lines, 0, TRUE)

apply_file_patch(file, p, dry_run) ==
    IF ~file.exists
    THEN Applied("failed", file, file, <<>>, 0, FALSE)
    ELSE LET original_lines == file.content
             run == run_actions(original_lines, p.actions, 1)
         IN IF ~run.ok
            THEN Applied("hunk_failed", file, file, run.lines, run.failed_at,
                         FALSE)
            ELSE IF original_lines = run.lines
            THEN Applied("skipped", file, file, run.lines, 0, FALSE)
            ELSE IF dry_run
            THEN Applied("applied", file, file, run.lines, 0, FALSE)
            ELSE Applied("applied", file, File(write_text(run.lines)),
                         run.lines, 0, TRUE)

\* An apply_create_action that reports an existing file as a failure
apply_create_action_rejects_existing(file, p, dry_run) ==
    IF file.exists
    THEN Applied("failed", file, file, file.content, 0, FALSE)
    ELSE IF dry_run
    THEN Applied("created", file, file, p.content, 0, FALSE)
    ELSE Applied("created", file, File(write_text(p.content)), p.content, 0,
                 TRUE)

apply_create_action(file, p, dry_run) ==
    IF file.exists
    THEN Applied("skipped", file, file, file.content, 0, FALSE)
    ELSE IF dry_run
    THEN Applied("created", file, file, p.content, 0, FALSE)
    ELSE Applied("created", file, File(write_text(p.content)), p.content, 0,
                 TRUE)

apply_remove_file(file, p, dry_run) ==
    IF ~file.exists
    THEN Applied("skipped", file, file, <<>>, 0, FALSE)
    ELSE IF dry_run
    THEN Applied("applied", file, file, <<>>, 0, FALSE)
    ELSE Applied("applied", file, NoFile, <<>>, 0, TRUE)

EndClass == <<".end", " ", "class">>

FileLines == {MethodFoo, EndMethod, FieldA, EndClass}

FileActions ==
    {Action("REPLACE", MethodFoo, <<NewBodyLine>>, <<>>),
     Action("PATCH", <<>>, <<>>, <<Op(" ", FieldA), Op("+", FieldB)>>),
     Action("CREATE_METHOD", <<>>, <<MethodBar, EndMethod>>, <<>>),
     Action("REMOVE_METHOD", MethodFoo, <<>>, <<>>),
     Action("ADD_FIELD", <<>>, <<FieldB>>, <<>>),
     Action("REMOVE_FIELD", <<"a:I">>, <<>>, <<>>)}

ThePath == CHOOSE p \in Paths : TRUE

Patches ==
    {Patch("FILE", ThePath, acts, <<>>) :
        acts \in SeqUpTo(FileActions, MaxActions)}
    \cup {Patch("CREATE", ThePath, <<>>, <<EndClass>>),
          Patch("REMOVE", ThePath, <<>>, <<>>)}

InitialFiles ==
    {NoFile} \cup {File(c) : c \in SeqUpTo(FileLines, MaxFileLines)}

InitApply ==
    /\ disk \in [Paths -> InitialFiles]
    /\ dryDisk = disk
    /\ patch \in Patches
    /\ log = <<>>
    /\ dryLog = <<>>
    /\ HunkIdle
    /\ ParseIdle

\* One application of the patch: to disk for real, or to dryDisk with dry_run
Run(applied, dry_run) ==
    /\ IF dry_run
       THEN /\ Len(dryLog) < MaxRuns
            /\ dryDisk' = [dryDisk EXCEPT ![patch.file_path] = applied.after]
            /\ dryLog' = Append(dryLog, applied)
            /\ UNCHANGED <<disk, log>>
       ELSE /\ Len(log) < MaxRuns
            /\ disk' = [disk EXCEPT ![patch.file_path] = applied.after]
            /\ log' = Append(log, applied)
            /\ UNCHANGED <<dryDisk, dryLog>>
    /\ UNCHANGED patch
    /\ UNCHANGED hunkVars
    /\ UNCHANGED parseVars

FileOf(dry_run) ==
    IF dry_run THEN dryDisk[patch.file_path] ELSE disk[patch.file_path]

ApplyFilePatch(dry_run) ==
    /\ patch.type = "FILE"
    /\ Run(apply_file_patch(FileOf(dry_run), patch, dry_run), dry_run)

ApplyCreateAction(dry_run) ==
    /\ patch.type = "CREATE"
    /\ Run(apply_create_action(FileOf(dry_run), patch, dry_run), dry_run)

ApplyRemoveFile(dry_run) ==
    /\ patch.type = "REMOVE"
    /\ Run(apply_remove_file(FileOf(dry_run), patch, dry_run), dry_run)

NextApply ==
    \E dry_run \in BOOLEAN :
        \/ ApplyFilePatch(dry_run)
        \/ ApplyCreateAction(dry_run)
        \/ ApplyRemoveFile(dry_run)

SpecApply == InitApply /\ [][NextApply]_vars

----------------------------------------------------------------------------
(* A sequence of CREATE and REMOVE directives on one path, each applied to the *)
(* file as the directive before it left it; a dry application writes nothing.  *)

CreateContents == {<<>>, <<FieldA, EndClass>>}

Directives ==
    {Patch("CREATE", ThePath, <<>>, c) : c \in CreateContents}
    \cup {Patch("REMOVE", ThePath, <<>>, <<>>)}

InitDirectives ==
    /\ disk \in [Paths -> InitialFiles]
    /\ dryDisk = disk
    /\ patch = NoPatch
    /\ log = <<>>
    /\ dryLog = <<>>
    /\ HunkIdle
    /\ ParseIdle

\* The bookkeeping of one directive: the file it leaves and its log entry
Directive(p, applied, dry_run) ==
    /\ Len(log) < MaxDirectives
    /\ patch' = p
    /\ disk' = [disk EXCEPT ![p.file_path] = applied.after]
    /\ log' = Append(log, [patch |-> p, dry_run |-> dry_run,
                           applied |-> applied])
    /\ UNCHANGED <<dryDisk, dryLog>>
    /\ UNCHANGED hunkVars
    /\ UNCHANGED parseVars

\* One call of apply_create_action for the next directive
CreateDirective ==
    \E p \in Directives, dry_run \in BOOLEAN :
        /\ p.type = "CREATE"
        /\ Directive(p, apply_create_action(disk[p.file_path], p, dry_run),
                     dry_run)

\* One call of apply_remove_file for the next directive
RemoveDirective ==
    \E p \in Directives, dry_run \in BOOLEAN :
        /\ p.type = "REMOVE"
        /\ Directive(p, apply_remove_file(disk[p.file_path], p, dry_run),
                     dry_run)

NextDirectives == CreateDirective \/ RemoveDirective

SpecDirectives == InitDirectives /\ [][NextDirectives]_vars

----------------------------------------------------------------------------
(* apply_global_find_replace against a work directory.  Here the content of a *)
(* file is the sequence of its characters, the program searches inside it.     *)
(* The search string is not empty.                                             *)

\* find_str in content
str_in(content, find_str) ==
    \E j \in 1..(Len(content) - Len(find_str) + 1) :
        SubSeq(content, j, j + Len(find_str) - 1) = find_str

\* A count that also counts the occurrences that overlap an earlier one
RECURSIVE str_count_overlapping(_, _)
str_count_overlapping(content, find_str) ==
    IF Len(content) < Len(find_str) THEN 0
    ELSE (IF startswith(content, find_str) THEN 1 ELSE 0)
         + str_count_overlapping(Tail(content), find_str)

\* content.count(find_str): occurrences from the left that do not overlap
RECURSIVE str_count(_, _)
str_count(content, find_str) ==
    IF Len(content) < Len(find_str) THEN 0
    ELSE IF startswith(content, find_str)
         THEN 1 + str_count(Drop(content, Len(find_str)), find_str)
         ELSE str_count(Tail(content), find_str)

\* content.replace(find_str, replace_str)
RECURSIVE str_replace(_, _, _)
str_replace(content, find_str, replace_str) ==
    IF Len(content) < Len(find_str) THEN content
    ELSE IF startswith(content, find_str)
         THEN replace_str
              \o str_replace(Drop(content, Len(find_str)), find_str, replace_str)
         ELSE <<Head(content)>>
              \o str_replace(Tail(content), find_str, replace_str)

\* work_path.rglob('*.smali'): the existing files whose name ends in .smali
smali_files(fs) ==
    {f \in DOMAIN fs : fs[f].exists /\ f[Len(f)] = ".smali"}

\* The for loop of apply_global_find_replace over the files still to visit
RECURSIVE find_replace_scan(_, _, _, _)
find_replace_scan(todo, acc, p, dry_run) ==
    IF todo = {} THEN acc
    ELSE LET file_path == CHOOSE f \in todo : TRUE
             content == acc.fs[file_path].content
             count == str_count(content, p.find)
         IN IF ~str_in(content, p.find) \/ count = 0
            THEN find_replace_scan(todo \ {file_path}, acc, p, dry_run)
            ELSE find_replace_scan(todo \ {file_path},
                     [files_changed |-> acc.files_changed + 1,
                      total_occurrences |-> acc.total_occurrences + count,
                      fs |-> IF dry_run THEN acc.fs
                             ELSE [acc.fs EXCEPT ![file_path] =
                                      File(str_replace(content, p.find,
                                                       p.replace))],
                      wrote |-> IF dry_run THEN acc.wrote
                                ELSE acc.wrote \cup {file_path}],
                     p, dry_run)

\* What one call reports: the outcome tag, the two counters, the work directory
\* before and after the call and the files it wrote
apply_global_find_replace(fs, p, dry_run) ==
    LET scan == find_replace_scan(smali_files(fs),
                    [files_changed |-> 0, total_occurrences |-> 0, fs |-> fs,
                     wrote |-> {}], p, dry_run)
    IN [outcome |-> IF smali_files(fs) = {} THEN "skipped"
                    ELSE IF scan.files_changed = 0 THEN "skipped"
                    ELSE "applied",
        files_changed |-> scan.files_changed,
        total_occurrences |-> scan.total_occurrences,
        before |-> fs, after |-> scan.fs, wrote |-> scan.wrote]

WorkPaths == {<<"A", ".smali">>, <<"sub/B", ".smali">>, <<"C", ".txt">>}
Chars == {"a", "b"}

FindReplacePatches ==
    {[type |-> "FIND_REPLACE", find |-> f, replace |-> r] :
        f \in {<<"a">>, <<"a", "a">>, <<"a", "b">>},
        r \in {<<>>, <<"b">>, <<"a", "a">>}}

InitGlobal ==
    /\ disk \in [WorkPaths ->
                    {NoFile} \cup {File(c) : c \in SeqUpTo(Chars, MaxContent)}]
    /\ disk[<<"C", ".txt">>] = File(<<"a", "a">>)
    /\ dryDisk = disk
    /\ patch \in FindReplacePatches
    /\ log = <<>>
    /\ dryLog = <<>>
    /\ HunkIdle
    /\ ParseIdle

\* One call of apply_global_find_replace on the work directory, for real or
\* with dry_run set
ApplyGlobalFindReplace(dry_run) ==
    /\ patch.type = "FIND_REPLACE"
    /\ IF dry_run
       THEN /\ Len(dryLog) < MaxRuns
            /\ LET r == apply_global_find_replace(dryDisk, patch, TRUE) IN
                  /\ dryDisk' = r.after
                  /\ dryLog' = Append(dryLog, r)
            /\ UNCHANGED <<disk, log>>
       ELSE /\ Len(log) < MaxRuns
            /\ LET r == apply_global_find_replace(disk, patch, FALSE) IN
                  /\ disk' = r.after
                  /\ log' = Append(log, r)
            /\ UNCHANGED <<dryDisk, dryLog>>
    /\ UNCHANGED patch
    /\ UNCHANGED hunkVars
    /\ UNCHANGED parseVars

NextGlobal == \E dry_run \in BOOLEAN : ApplyGlobalFindReplace(dry_run)

SpecGlobal == InitGlobal /\ [][NextGlobal]_vars

----------------------------------------------------------------------------
(* Properties of the locator and the hunk appliers *)

\* The 1-based positions of the lines of buf at index k or later that are not
\* ignorable, in order
RECURSIVE SigPositions(_, _)
SigPositions(buf, k) ==
    IF k >= Len(buf) THEN <<>>
    ELSE (IF normalize(buf[k + 1]) # Ignorable THEN <<k + 1>> ELSE <<>>)
         \o SigPositions(buf, k + 1)

\* The lines of buf from index k on, ignorable lines left out, begin with fp
MatchesAt(buf, fp, k) ==
    LET pos == SigPositions(buf, k) IN
    /\ Len(pos) >= Len(fp)
    /\ \A j \in 1..Len(fp) : normalize(buf[pos[j]]) = fp[j]

LowestStart(buf, fp) ==
    LET starts == {k \in 0..(Len(buf) - 1) : MatchesAt(buf, fp, k)} IN
    IF starts = {} THEN -1
    ELSE CHOOSE k \in starts : \A h \in starts : k <= h

\* A blank line or a comment line, by its text alone
IsBlankOrComment(line) ==
    \/ \A k \in 1..Len(line) : line[k] \in {" ", "\t"}
    \/ \E k \in 1..Len(line) :
          /\ line[k] \in {"#", "//"}
          /\ \A h \in 1..(k - 1) : line[h] \in {" ", "\t"}

\* The positions, in the target before the drift, of the lines the fingerprint
\* matched
OldMatched == SigPositions(drift.old, drift.before)

\* The inserted line lies after the first and before the last matched line
DriftBetweenMatched ==
    /\ drift # NoDrift
    /\ drift.before # -1
    /\ Len(fingerprint) >= 2
    /\ OldMatched[1] <= drift.at
    /\ drift.at < OldMatched[Len(fingerprint)]

\* The fingerprint line the walk expects where the line was inserted
NextExpected ==
    fingerprint[Cardinality({j \in 1..Len(fingerprint) :
                                OldMatched[j] <= drift.at}) + 1]

\* C4: find_fingerprint returns the lowest start index from which the target's
\* non-ignorable lines begin with the fingerprint, and -1 exactly when there is
\* none; a blank or comment line inserted between two matched lines leaves the
\* match where it was; an inserted line that is not ignorable and differs from
\* the next fingerprint line ends the match of that occurrence.
C4_ContextTolerance ==
    hpc = "found" =>
        /\ match_idx = LowestStart(lines, fingerprint)
        /\ DriftBetweenMatched =>
              /\ IsBlankOrComment(drift.line) => match_idx = drift.before
              /\ (/\ ~IsBlankOrComment(drift.line)
                  /\ normalize(drift.line) # NextExpected)
                 => \/ match_idx = -1
                    \/ SigPositions(lines, match_idx)[1] # OldMatched[1]

C4_Witness ==
    /\ hpc = "found"
    /\ DriftBetweenMatched
    /\ drift.line = SlashComment
    /\ match_idx = drift.before
    /\ match_idx > 0

\* The operation list is [Context A, Remove B, Add C, Context D]
IsContextRemoveAddContext(operations) ==
    /\ Len(operations) = 4
    /\ <<operations[1].op, operations[2].op, operations[3].op,
         operations[4].op>> = <<" ", "-", "+", " ">>

FingerprintABD ==
    <<normalize(action.operations[1].line),
      normalize(action.operations[2].line),
      normalize(action.operations[4].line)>>

\* C3: for operations [Context A, Remove B, Add C, Context D] and a target in
\* which the fingerprint [A, B, D] matches, _apply_patch succeeds and its output
\* holds the target up to the matched A unchanged, then C, then the target from
\* the matched D on unchanged, with no line that is not ignorable between A and
\* D other than C: the matched B is absent and C lies between A and D.
C3_ContextPatchOrdering ==
    (/\ hpc = "applied"
     /\ action.type = "PATCH"
     /\ IsContextRemoveAddContext(action.operations)
     /\ LowestStart(lines, FingerprintABD) # -1)
    => LET pos == SigPositions(lines, LowestStart(lines, FingerprintABD))
           out == result.lines
       IN /\ result.ok
          /\ \E a, c, d \in 1..Len(out) :
                /\ a < c
                /\ c < d
                /\ SubSeq(out, 1, a) = SubSeq(lines, 1, pos[1])
                /\ out[c] = action.operations[3].line
                /\ SubSeq(out, d, Len(out)) = SubSeq(lines, pos[3], Len(lines))
                /\ \A j \in (a + 1)..(d - 1) :
                      j = c \/ normalize(out[j]) = Ignorable

C3_Witness ==
    /\ hpc = "applied"
    /\ action.type = "PATCH"
    /\ IsContextRemoveAddContext(action.operations)
    /\ result.ok
    /\ lines = <<HashComment, LineXYSpaced, Blank, LineB, LineB>>
    /\ result.lines = <<HashComment, LineXYSpaced, LineC, LineB>>

\* The indices of the lines a method signature matches
MethodStarts(buf, sig) ==
    {k \in 0..(Len(buf) - 1) : sig_match(sig, strip(buf[k + 1]))}

\* The indices after start of the '.end method' lines
Terminators(buf, start) ==
    {j \in (start + 1)..(Len(buf) - 1) : strip(buf[j + 1]) = EndMethod}

Lowest(S) == CHOOSE k \in S : \A h \in S : k <= h

\* A method is located: its signature line and a terminator after it exist
MethodLocated ==
    /\ MethodStarts(lines, action.signature) # {}
    /\ Terminators(lines, Lowest(MethodStarts(lines, action.signature))) # {}

\* C5: when _apply_replace locates a method with its signature at start and
\* its terminator at end, the result is the target up to and with the signature
\* line, then the action's content, then the target from the terminator on:
\* every line before the signature and from the terminator on (so every line
\* of a later method) is kept, in the same order.
C5_ReplaceSplice ==
    (hpc = "applied" /\ action.type = "REPLACE" /\ MethodLocated)
    => LET start == Lowest(MethodStarts(lines, action.signature))
           end == Lowest(Terminators(lines, start))
           n == Len(action.content)
           out == result.lines
       IN /\ result.ok
          /\ Len(out) = start + 1 + n + Len(lines) - end
          /\ \A k \in 1..(start + 1) : out[k] = lines[k]
          /\ \A k \in 1..n : out[start + 1 + k] = action.content[k]
          /\ \A k \in (end + 1)..Len(lines) :
                out[k - end + start + 1 + n] = lines[k]

C5_Witness ==
    /\ hpc = "applied"
    /\ action = Action("REPLACE", MethodFoo, <<NewBodyLine>>, <<>>)
    /\ lines = <<MethodFooSpaced, BodyLine, EndMethod, MethodBar, EndMethod>>
    /\ result = Some(<<MethodFooSpaced, NewBodyLine, EndMethod, MethodBar,
                       EndMethod>>)

\* C6: when the first line matching the signature has no '.end method' line
\* after it, Replace and RemoveMethod fail: they return no buffer.
C6_OpenEndedMethodFails ==
    (/\ hpc = "applied"
     /\ action.type \in {"REPLACE", "REMOVE_METHOD"}
     /\ MethodStarts(lines, action.signature) # {}
     /\ Terminators(lines, Lowest(MethodStarts(lines, action.signature))) = {})
    => result = None

\* The blank and comment lines of a buffer, in order
IgnorableLines(buf) == SelectSeq(buf, LAMBDA l : normalize(l) = Ignorable)

\* Every line of a occurs in b, in the order of a
RECURSIVE IsSubsequence(_, _)
IsSubsequence(a, b) ==
    IF a = <<>> THEN TRUE
    ELSE IF b = <<>> THEN FALSE
    ELSE IF Head(a) = Head(b) THEN IsSubsequence(Tail(a), Tail(b))
    ELSE IsSubsequence(a, Tail(b))

\* The number of operations of the list with the tag
CountOps(operations, tag) ==
    Cardinality({k \in 1..Len(operations) : operations[k].op = tag})

\* C15: when _apply_patch succeeds, every blank or comment line of the target
\* is in the output, in the target's order; the lines before the match start
\* are copied unchanged; and the output is shorter than the target by the lines
\* the Remove operations consumed only, one per Remove, and longer by one line
\* per Add.
C15_IgnorableLinesPreserved ==
    (hpc = "applied" /\ action.type = "PATCH" /\ result.ok)
    => LET start == LowestStart(lines, build_fingerprint(action.operations))
       IN /\ IsSubsequence(IgnorableLines(lines), IgnorableLines(result.lines))
          /\ SubSeq(result.lines, 1, start) = SubSeq(lines, 1, start)
          /\ Len(result.lines) = Len(lines)
                                 - CountOps(action.operations, "-")
                                 + CountOps(action.operations, "+")

\* C16: after the fingerprint has matched, every target line a Remove
\* operation passes over and every target line that is not ignorable and that a
\* Context operation copies normalizes to the normalized line of that
\* operation, and the replay does not end with 'Unexpected end of file'.
C16_ReplayAligned ==
    [][InReplay =>
         /\ (CurrentOp.op \in {" ", "-"} /\ target_idx' > target_idx) =>
               normalize(lines[target_idx']) = normalize(CurrentOp.line)
         /\ hpc' # "end_of_file"]_vars

Highest(S) == CHOOSE k \in S : \A h \in S : k >= h

\* The indices of the lines of buf whose trimmed form starts with the words
LinesStarting(buf, words) ==
    {k \in 0..(Len(buf) - 1) : startswith(strip(buf[k + 1]), words)}

\* The insertion point by priority: after the last '.field ' line, else before
\* the first '.method ' line, else after the '.super ' line; -1 without anchor
FieldAnchor(buf) ==
    LET fields == LinesStarting(buf, <<".field", " ">>)
        methods == LinesStarting(buf, <<".method", " ">>)
        supers == LinesStarting(buf, <<".super", " ">>)
    IN IF fields # {} THEN Highest(fields) + 1
       ELSE IF methods # {} THEN Lowest(methods)
       ELSE IF supers # {} THEN Highest(supers) + 1
       ELSE -1

\* A line of whitespace only
IsBlankLine(line) == \A k \in 1..Len(line) : line[k] \in {" ", "\t"}

\* C11: for field content that is not empty, _apply_add_field fails exactly
\* when the buffer has no '.field ', '.method ' or '.super ' line; otherwise its
\* result is the buffer up to the insertion point (after the last field line,
\* else before the first method line, else after the superclass line), one
\* blank line exactly when a line lies above the insertion point and is not
\* blank, the content, and the rest of the buffer, all in their order.
C11_AddFieldInsertionPoint ==
    (hpc = "applied" /\ action.type = "ADD_FIELD" /\ action.content # <<>>)
    => LET at == FieldAnchor(lines)
           separator == IF at > 0 /\ ~IsBlankLine(lines[at])
                        THEN <<Blank>> ELSE <<>>
       IN IF at = -1 THEN result = None
          ELSE /\ result.ok
               /\ result.lines = SubSeq(lines, 1, at) \o separator
                                 \o action.content
                                 \o SubSeq(lines, at + 1, Len(lines))

C11_Witness ==
    /\ hpc = "applied"
    /\ action = Action("ADD_FIELD", <<>>, <<FieldB>>, <<>>)
    /\ lines = <<SuperLine, Blank, MethodFoo, FieldATab>>
    /\ result = Some(<<SuperLine, Blank, FieldB, MethodFoo, FieldATab>>)

\* The trimmed form of the line is a .field declaration that holds the fragment
IsFieldWith(line, fragment) ==
    LET s == strip(line) IN
    /\ Len(s) >= 3
    /\ s[1] = ".field"
    /\ s[2] \in {" ", "\t"}
    /\ \E j \in 3..(Len(s) - Len(fragment) + 1) :
          \A h \in 1..Len(fragment) : s[j + h - 1] = fragment[h]

FieldLines(buf, fragment) ==
    {k \in 0..(Len(buf) - 1) : IsFieldWith(buf[k + 1], fragment)}

\* C12: for a field signature fragment that is not empty, _apply_remove_field
\* fails exactly when no line is a .field declaration holding the fragment;
\* otherwise its result is the buffer without the first such line: one line
\* shorter, every other line kept in order, later matching lines included.
C12_RemoveFieldOneLine ==
    (hpc = "applied" /\ action.type = "REMOVE_FIELD" /\ action.signature # <<>>)
    => LET found == FieldLines(lines, action.signature) IN
       IF found = {} THEN result = None
       ELSE LET first == Lowest(found)
                out == result.lines
            IN /\ result.ok
               /\ Len(out) = Len(lines) - 1
               /\ \A k \in 1..first : out[k] = lines[k]
               /\ \A k \in (first + 1)..Len(out) : out[k] = lines[k + 1]
               /\ \A k \in found \ {first} :
                     IsFieldWith(out[k], action.signature)

C12_Witness ==
    /\ hpc = "applied"
    /\ action = Action("REMOVE_FIELD", <<"a:I">>, <<>>, <<>>)
    /\ lines = <<IgetLine, FieldATab, FieldB, FieldAIndented>>
    /\ result = Some(<<IgetLine, FieldB, FieldAIndented>>)

----------------------------------------------------------------------------
(* Properties of the directive parser *)

\* C7: parse_patches returns a (patches, credits) pair for every input: no
\* line, a top-level FIND_REPLACE line included, makes it leave by an exception.
C7_ParsingNeverFails == pstate # "raised"

\* The index of the line that ends the content block opened at index k - 1:
\* the first line at k or later whose first word is a keyword, Len(input) when
\* there is none
BlockStop(k) ==
    LET stops == {j \in k..(Len(input) - 1) :
                     first_word_is_keyword(strip(input[j + 1]))}
    IN IF stops = {} THEN Len(input) ELSE Lowest(stops)

\* The content block of the action at index i is ended by an END line
ActionEndedByEnd ==
    /\ action_type_of(line_strip) # "NONE"
    /\ BlockStop(i + 1) < Len(input)
    /\ strip(input[BlockStop(i + 1) + 1])[1] = "END"

\* C8 as amended: inside a FILE block, an END line the block loop reads closes
\* the block and returns the parser to top-level scan; an END line that ends an
\* action's content block is consumed with that action and leaves the block
\* open; a CREDIT or FIND_REPLACE line read inside the block is skipped, no
\* credit is appended and no patch is emitted.
C8_EndClosesBlockAtBlockLevel ==
    [][InFile =>
         /\ line_strip = <<"END">> =>
               /\ pstate' = "top"
               /\ i' = i + 1
               /\ patches' = Append(patches, cur)
         /\ ActionEndedByEnd =>
               /\ pstate' = "file"
               /\ i' = BlockStop(i + 1) + 1
               /\ patches' = patches
               /\ Len(cur'.actions) = Len(cur.actions) + 1
         /\ (\/ startswith(line_strip, <<"CREDIT", " ">>)
             \/ startswith(line_strip, <<"FIND_REPLACE", " ">>)) =>
               /\ pstate' = "file"
               /\ i' = i + 1
               /\ credits' = credits
               /\ patches' = patches]_vars

C8_Witness ==
    /\ pstate = "done"
    /\ input = <<FileLine, ReplaceLine, EndLine, CreditLine>>
    /\ credits = <<>>
    /\ Len(patches) = 1

\* C8: inside a FILE block every END line, the one that ends an action's
\* content block included, closes the block and returns the parser to
\* top-level scan.
C8_EndAlwaysClosesFileBlock ==
    [][(/\ pstate = "file"
        /\ i' > i
        /\ first_word_is_keyword(strip(input[i']))
        /\ strip(input[i'])[1] = "END")
       => pstate' = "top"]_vars

----------------------------------------------------------------------------
(* Properties of patch application *)

\* C1: when an action of a FileEdit Patch fails, the outcome is hunk_failed and
\* the file is left as it was before the Patch started: nothing is written.
C1_AllOrNothing ==
    \A k \in 1..Len(log) :
        log[k].failed_at > 0 =>
            /\ log[k].outcome = "hunk_failed"
            /\ ~log[k].wrote
            /\ log[k].after = log[k].before
            /\ (IF k < Len(log) THEN log[k + 1].before
                ELSE disk[patch.file_path]) = log[k].before

C1_Witness ==
    /\ Len(log) = 1
    /\ log[1].failed_at = 2
    /\ log[1].would_be # log[1].before.content
    /\ log[1].outcome = "hunk_failed"
    /\ disk[patch.file_path] = log[1].before

\* C2: a second run of the same Patch ends skipped when the first run changed
\* the file, and leaves the file as the first run left it.
C2_Idempotence ==
    (Len(log) >= 2 /\ log[1].outcome \in {"applied", "created"}) =>
        /\ log[2].outcome = "skipped"
        /\ log[2].after = log[1].after

\* C9: a FileEdit Patch whose actions leave a buffer of zero lines from a file
\* that is not empty ends as a failure and writes nothing.
C9_BufferNeverEmptied ==
    \A k \in 1..Len(log) :
        (/\ patch.type = "FILE"
         /\ log[k].before.exists
         /\ log[k].before.content # <<>>
         /\ log[k].failed_at = 0
         /\ log[k].would_be = <<>>)
        => /\ log[k].outcome \in {"failed", "hunk_failed"}
           /\ ~log[k].wrote

\* C10: the dry run writes nothing, and its k-th Patch ends with the outcome
\* tag and the buffer of the k-th Patch of the real run.
C10_DryRunEquivalence ==
    /\ \A k \in 1..Len(dryLog) :
          ~dryLog[k].wrote /\ dryLog[k].after = dryLog[k].before
    /\ \A k \in 1..Min(Len(log), Len(dryLog)) :
          /\ dryLog[k].outcome = log[k].outcome
          /\ dryLog[k].would_be = log[k].would_be

----------------------------------------------------------------------------
(* Properties of the global find/replace *)

\* The positions at which the search string occurs in the content
OccurrenceStarts(content, find_str) ==
    {j \in 1..(Len(content) - Len(find_str) + 1) :
        \A h \in 1..Len(find_str) : content[j + h - 1] = find_str[h]}

\* The number of occurrences among starts, taken from the left, none of which
\* overlaps the one taken before it; n is the length of the search string
RECURSIVE DisjointFromLeft(_, _)
DisjointFromLeft(starts, n) ==
    IF starts = {} THEN 0
    ELSE 1 + DisjointFromLeft({h \in starts : h >= Lowest(starts) + n}, n)

Occurrences(content, find_str) ==
    DisjointFromLeft(OccurrenceStarts(content, find_str), Len(find_str))

\* The eligible files of the work directory that hold the search string
FilesContaining(fs, find_str) ==
    {f \in DOMAIN fs :
        /\ fs[f].exists
        /\ f[Len(f)] = ".smali"
        /\ OccurrenceStarts(fs[f].content, find_str) # {}}

RECURSIVE SumOccurrences(_, _, _)
SumOccurrences(files, fs, find_str) ==
    IF files = {} THEN 0
    ELSE LET f == CHOOSE g \in files : TRUE IN
         Occurrences(fs[f].content, find_str)
         + SumOccurrences(files \ {f}, fs, find_str)

\* The accounting of one call, checked against the work directory it started on
AccountingHolds(entry, dry_run) ==
    LET holding == FilesContaining(entry.before, patch.find) IN
    /\ entry.files_changed = Cardinality(holding)
    /\ entry.total_occurrences =
          SumOccurrences(holding, entry.before, patch.find)
    /\ entry.wrote = IF dry_run THEN {} ELSE holding
    /\ \A f \in DOMAIN entry.before :
          f \notin holding => entry.after[f] = entry.before[f]
    /\ entry.outcome = IF holding = {} THEN "skipped" ELSE "applied"

\* C13: every call of apply_global_find_replace reports files_changed equal to
\* the number of eligible files that hold the search string and
\* total_occurrences equal to the sum of their occurrence counts; a file with
\* no occurrence is never rewritten; the outcome is skipped exactly when no
\* eligible file holds the search string, and applied otherwise.
C13_GlobalFindReplaceAccounting ==
    /\ \A k \in 1..Len(log) : AccountingHolds(log[k], FALSE)
    /\ \A k \in 1..Len(dryLog) : AccountingHolds(dryLog[k], TRUE)

C13_Witness ==
    /\ Len(log) = 1
    /\ patch = [type |-> "FIND_REPLACE", find |-> <<"a">>, replace |-> <<"b">>]
    /\ log[1].before[<<"A", ".smali">>] = File(<<"a", "b", "a">>)
    /\ log[1].before[<<"sub/B", ".smali">>] = File(<<"b">>)
    /\ log[1].files_changed = 1
    /\ log[1].total_occurrences = 2
    /\ log[1].outcome = "applied"
    /\ disk[<<"A", ".smali">>] = File(<<"b", "b", "b">>)
    /\ disk[<<"C", ".txt">>] = File(<<"a", "a">>)

----------------------------------------------------------------------------
(* Properties of the CREATE and REMOVE directives *)

\* The file the k-th directive found
FoundBy(k) == log[k].applied.before

\* The file the k-th directive left
LeftBy(k) == IF k < Len(log) THEN FoundBy(k + 1) ELSE disk[log[k].patch.file_path]

\* C14: in every sequence of CREATE and REMOVE directives on one path, CREATE
\* on an existing file is skipped and leaves the file as it is, REMOVE on a
\* missing file is skipped, CREATE on a missing file is created and leaves the
\* file with the given content written to it, REMOVE on an existing file is
\* applied and leaves no file; no directive is reported as failed, and a dry
\* application reports the same outcome and leaves the file as it found it.
C14_RedundantDirectiveSkipped ==
    \A k \in 1..Len(log) :
        LET p == log[k].patch
            outcome == log[k].applied.outcome
            found == FoundBy(k)
            left == LeftBy(k)
        IN /\ outcome # "failed"
           /\ (p.type = "CREATE" /\ found.exists) =>
                 outcome = "skipped" /\ left = found
           /\ (p.type = "REMOVE" /\ ~found.exists) =>
                 outcome = "skipped" /\ left = found
           /\ (p.type = "CREATE" /\ ~found.exists) =>
                 /\ outcome = "created"
                 /\ IF log[k].dry_run THEN left = found
                    ELSE /\ left.exists
                         /\ left.content =
                               IF p.content = <<>> THEN <<Blank>> ELSE p.content
           /\ (p.type = "REMOVE" /\ found.exists) =>
                 /\ outcome = "applied"
                 /\ IF log[k].dry_run THEN left = found ELSE ~left.exists

C14_Witness ==
    /\ Len(log) = 3
    /\ \A k \in 1..3 : ~log[k].dry_run
    /\ <<log[1].patch.type, log[2].patch.type, log[3].patch.type>>
          = <<"REMOVE", "REMOVE", "CREATE">>
    /\ <<log[1].applied.outcome, log[2].applied.outcome,
         log[3].applied.outcome>> = <<"applied", "skipped", "created">>
    /\ FoundBy(1) = File(<<MethodFoo, EndMethod>>)
    /\ disk[ThePath] = File(<<FieldA, EndClass>>)

----------------------------------------------------------------------------
(* Properties of the PATCH action of src/smali_patch.py *)

\* The index of the first line the method signature matches, -1 for none
SignatureLine ==
    LET starts == {k \in 0..(Len(lines) - 1) :
                      sig_match(action.signature, lstrip(lines[k + 1]))}
    IN IF starts = {} THEN -1 ELSE Lowest(starts)

\* The index of the first '.end method' line at or after the signature line
EndMethodLine ==
    LET ends == {j \in SignatureLine..(Len(lines) - 1) :
                    startswith(lines[j + 1], EndMethod)}
    IN IF ends = {} THEN -1 ELSE Lowest(ends)

\* C17: when the PATCH action carries a method signature and is applied, the
\* position chosen for the edit lies from the method's signature line to its
\* '.end method' line.
C17_ContextSearchedInMethod ==
    (hpc = "applied" /\ action.signature # <<>> /\ result.ok)
    => /\ SignatureLine <= match_idx
       /\ match_idx <= EndMethodLine

\* The operation list is [Context A, Remove B, Add C], applied at the index of
\* a line holding A that is followed by a line holding B
IsContextRemoveAddAtAB ==
    /\ hpc = "applied"
    /\ result.ok
    /\ Len(action.operations) = 3
    /\ <<action.operations[1].op, action.operations[2].op,
         action.operations[3].op>> = <<" ", "-", "+">>
    /\ match_idx + 2 <= Len(lines)
    /\ contains(lines[match_idx + 1], action.operations[1].line)
    /\ contains(lines[match_idx + 2], action.operations[2].line)

\* C18: for operations [Context A, Remove B, Add C] applied at the index of A
\* in a buffer [..., A, B, ...], the result is the buffer with C in the place
\* of that B: C comes directly after A, never before it.
C18_AddAfterPrecedingContext ==
    IsContextRemoveAddAtAB
    => result.lines = SubSeq(lines, 1, match_idx + 1)
                      \o <<action.operations[3].line>>
                      \o SubSeq(lines, match_idx + 3, Len(lines))

====
